---- MODULE Spec2Model ----
(***************************************************************************)
(* Model of the background script of the extension (src/unnamed/part_000): *)
(* the TTL cache, the storage manager, the API client, the cookie manager, *)
(* the authentication manager and the message listener.                    *)
(*                                                                         *)
(* The script runs on one event loop.  An action of this model is one      *)
(* task of that loop (a message delivered to the listener, a callback of   *)
(* chrome.storage / chrome.cookies, a settled fetch, a timer) together     *)
(* with everything the script does before it next waits for such a task:   *)
(* awaits that are settled without a task of their own (a value found in   *)
(* StorageManager.cache or in Cache.data) are run through in the same      *)
(* action.  The handler code is written as operators from a script state S *)
(* to a script state; S holds the mutable objects of the script.           *)
(*                                                                         *)
(* Time is counted in units of 30 seconds.                                 *)
(***************************************************************************)
EXTENDS Integers, Sequences, FiniteSets, TLC

VARIABLES
  now,                 \* Date.now(), in units of 30 s
  ticks,               \* number of clock advances so far (bounds the model)
  data,                \* Cache.data
  cache,               \* StorageManager.cache
  storage,             \* chrome.storage.local
  pendingAuthRequest,  \* AuthManager.pendingAuthRequest: 0 (null) or the id of the
                       \* message whose performAuthentication call created the promise
  PendingUserStatusRequests,  \* key -> id of the message whose request is pending
  msgs,                \* the messages received so far, each with its handler's position
  storageQueue,        \* the handlers waiting for a callback of chrome.storage.local,
                       \* in the order in which they called it
  cleanupDue,          \* the setInterval timer of the periodic cleanup has expired
  probe                \* inputs and outputs of the unit-level specifications

vars ==
  <<now, ticks, data, cache, storage, pendingAuthRequest, PendingUserStatusRequests,
    msgs, storageQueue, cleanupDue, probe>>

----------------------------------------------------------------------------
(* Bounds of the model *)

MaxMsgs == 2
MaxTicks == 2
MaxAnyMsgs == 2
MaxCacheTime == 3
MaxClearMsgs == 3
MaxHealthMsgs == 3
MaxHealthTicks == 3
MaxFetchMsgs == 3
MaxUsers == 2
StartTime == 300

(* CONFIG and literal durations, in units of 30 s *)
AUTH_THROTTLE_INTERVAL == 240
CACHE_DURATION == 10
RETRY_AFTER == 1
HEALTH_TTL == 2
HEALTH_ERROR_TTL == 1
COOKIE_TTL == 1
CLEANUP_INTERVAL == 20

TOKEN == "mbf_token"
AUTH_META == "mbf_auth_meta"
HEALTH_CACHE == "mbf_health_cache"
STORAGE_KEYS == {TOKEN, AUTH_META, HEALTH_CACHE}

HEALTH_KEY == "health_check"
REQUIRED_KEY == "required_cookies"
REMEMBER_KEY == "remember_cookies"
CacheKeys == {HEALTH_KEY, REQUIRED_KEY, REMEMBER_KEY}

(* JavaScript values.  null and undefined are NULL; an optional value is    *)
(* None or Some(v).                                                         *)
NULL == "null"
EMPTY == ""
None == <<>>
Some(v) == <<v>>
Val(o) == o[1]
Falsy(x) == x \in {NULL, EMPTY}
ABSENT == "absent"

Users == {"u1", "u2"}
Csrfs == {"c1", "c2"}
Tokens == {"t2"}

----------------------------------------------------------------------------
(* Maps (JavaScript Map, chrome.storage.local) as functions on their keys *)

Put(f, key, value) == [k \in DOMAIN f \cup {key} |-> IF k = key THEN value ELSE f[k]]
Remove(f, key) == [k \in DOMAIN f \ {key} |-> f[k]]
EmptyMap == [k \in {} |-> None]

(* class Cache: an entry is [value, expiry] *)
CacheSet(d, key, value, ttl, t) == Put(d, key, [value |-> value, expiry |-> t + ttl])

(* an entry that never expires *)
CacheExpired_Never(item, t) == FALSE

CacheExpired(item, t) == t > item.expiry

(* Cache.get: the value returned (None for null) ... *)
CacheGet(d, key, t) ==
  IF key \notin DOMAIN d THEN None
  ELSE IF CacheExpired(d[key], t) THEN None
  ELSE Some(d[key].value)

(* ... and Cache.data after the call: an expired entry is deleted *)
CacheGetData(d, key, t) ==
  IF key \in DOMAIN d /\ CacheExpired(d[key], t) THEN Remove(d, key) ELSE d

CacheClear(d) == EmptyMap

(* chrome.storage.local.get(key): data[key] || null.  Every stored value is *)
(* a non-empty string or an object, so only an absent key gives null.       *)
ChromeGet(st, key) == IF key \in DOMAIN st THEN Some(st[key]) ELSE None

(* class StorageManager.  chrome.storage.local applies an operation when it *)
(* is called and runs its callback in a later task; the callbacks come in   *)
(* the order of the calls.                                                  *)
SMHas(S, key) == key \in DOMAIN S.cache

SMCached(S, key) == S.cache[key]

SMGetCallback(S, key, value) == [S EXCEPT !.cache = Put(S.cache, key, value)]

SMSet(S, key, value) ==
  [S EXCEPT !.cache = Put(S.cache, key, Some(value)),
            !.storage = Put(S.storage, key, value)]

SMRemove(S, key) ==
  [S EXCEPT !.cache = Remove(S.cache, key),
            !.storage = Remove(S.storage, key)]

SMInvalidate(S, key) == [S EXCEPT !.cache = Remove(S.cache, key)]

SMClearCache(S) == [S EXCEPT !.cache = EmptyMap]

----------------------------------------------------------------------------
(* Messages and responses *)

DefaultMeta ==
  [lastTime |-> 0, lastUser |-> NULL, lastCsrf |-> NULL,
   lastAttempt |-> 0, failureCount |-> 0]

NoHealth == [status |-> ABSENT, category |-> FALSE, error |-> ABSENT]

(* a response object handed to sendResponse; a field it lacks is ABSENT or None *)
Resp(success, shouldAuth, reason, token, error) ==
  [success |-> success, shouldAuth |-> shouldAuth, reason |-> reason,
   token |-> token, error |-> error]

(* the other response objects; the payload of an API response is a name *)
ErrorResp(error) == [success |-> "false", error |-> error]
DataResp(d) == [success |-> "true", data |-> d]
StatusResp(status) == [success |-> "true", status |-> status]
UnknownResp == [error |-> "Unknown message type"]

(* card_id and users of a FETCH_USERS_CARD_STATUS message: a card number  *)
(* and the list of user ids (users.map(u => u.user_id || u)); ids are     *)
(* one-digit strings, written as numbers                                  *)
Req(card_id, users) == [card_id |-> card_id, users |-> users]

NoReq == Req(0, <<>>)

(* Array.prototype.sort() on a list of one-digit ids: insertion of each   *)
(* element into the sorted rest                                           *)
RECURSIVE Sorted(_)
Sorted(s) ==
  IF s = <<>> THEN <<>>
  ELSE LET rest == Sorted(Tail(s))
           less == SelectSeq(rest, LAMBDA x : x < Head(s))
           more == SelectSeq(rest, LAMBDA x : x >= Head(s))
       IN  less \o <<Head(s)>> \o more

(* the key without the sort *)
RequestKey_Unsorted(req) == <<req.card_id, req.users>>

(* `${card_id}:${users.map(u => u.user_id || u).sort().join(',')}`: the   *)
(* card and the sorted list determine the string and the string them      *)
RequestKey(req) == <<req.card_id, Sorted(req.users)>>

(* msg.data: currentUser and csrfToken of the auth messages; for the other  *)
(* messages whether the required parameters are there, and card_id and      *)
(* users of FETCH_USERS_CARD_STATUS                                         *)
Input(hasData, user, csrf, valid, req) ==
  [hasData |-> hasData, user |-> user, csrf |-> csrf, valid |-> valid, req |-> req]

(* the value _executeAuth resolves with (duration left out) *)
Result(success, token, error) == [success |-> success, token |-> token, error |-> error]

NewMsg(type, in) ==
  [type |-> type, hasData |-> in.hasData, user |-> in.user, csrf |-> in.csrf,
   valid |-> in.valid, req |-> in.req,
   pc |-> "new",
   token |-> None,          \* handleAuthRequest: token
   reason |-> ABSENT,       \* handleAuthRequest: reason
   seen |-> None,           \* what handleAuthRequest decided on: [token, meta, at]
   sval |-> None,           \* the value a pending chrome.storage.local.get has read
   joined |-> 0,            \* the message whose pending promise this handler waits for
   startTime |-> 0,         \* _executeAuth: startTime
   authMeta |-> DefaultMeta,\* _executeAuth: authMeta
   health |-> NoHealth,     \* _executeAuth: healthCheck
   cookies |-> {},          \* _executeAuth: cookies (names)
   needReq |-> FALSE,       \* getRequiredCookies is waiting for chrome.cookies
   needRem |-> FALSE,       \* getRememberWebCookies is waiting for chrome.cookies
   postToken |-> None,      \* _executeAuth: response.token
   error |-> ABSENT,        \* _executeAuth: error.message
   result |-> None,         \* what the promise of _executeAuth resolved with
   resp |-> None,           \* the argument of the last sendResponse call
   nresp |-> 0,             \* number of sendResponse calls
   thrown |-> FALSE,        \* the listener threw
   sync |-> FALSE,          \* sendResponse was called before the listener returned
   sent |-> {},             \* what this handler requested: "health", "cookies", "post", "api"
   wrote |-> {}]            \* chrome.storage.local keys this handler wrote or removed

M(S, i) == S.msgs[i]
Upd(S, i, m) == [S EXCEPT !.msgs[i] = m]

(* sendResponse(r), after which the handler returns and its locals are gone *)
SendResponse(S, i, r) ==
  LET m == M(S, i) IN
  Upd(S, i, [NewMsg(m.type, Input(m.hasData, m.user, m.csrf, m.valid, m.req)) EXCEPT
               !.pc = "done", !.resp = Some(r), !.nresp = m.nresp + 1,
               !.joined = m.joined, !.result = m.result, !.reason = m.reason,
               !.seen = m.seen,
               !.sent = m.sent, !.wrote = m.wrote])

----------------------------------------------------------------------------
(* class AuthManager *)

(* getAuthMeta: meta || { lastTime: 0, ... } *)
GetAuthMetaValue(o) == IF o = None THEN DefaultMeta ELSE Val(o)

(* shouldPerformAuth comparing the csrf token before the user *)
ShouldPerformAuth_CsrfFirst(token, meta, currentUser, currentCsrf, t) ==
  IF token = None \/ Falsy(Val(token))
    THEN [shouldAuth |-> TRUE, reason |-> "no_token"]
  ELSE IF Falsy(currentCsrf)
    THEN [shouldAuth |-> FALSE, reason |-> "no_csrf"]
  ELSE IF Falsy(currentUser)
    THEN [shouldAuth |-> FALSE, reason |-> "no_user"]
  ELSE IF currentCsrf # meta.lastCsrf
    THEN [shouldAuth |-> TRUE, reason |-> "csrf_changed"]
  ELSE IF currentUser # meta.lastUser
    THEN [shouldAuth |-> TRUE, reason |-> "user_changed"]
  ELSE IF t - meta.lastTime > AUTH_THROTTLE_INTERVAL
    THEN [shouldAuth |-> TRUE, reason |-> "time_elapsed"]
  ELSE IF meta.failureCount > 0 /\ t - meta.lastAttempt > RETRY_AFTER
    THEN [shouldAuth |-> TRUE, reason |-> "retry_after_failure"]
  ELSE [shouldAuth |-> FALSE, reason |-> "throttled"]

(* shouldPerformAuth retrying after any failure, without the 30 s window *)
ShouldPerformAuth_NoRetryWindow(token, meta, currentUser, currentCsrf, t) ==
  IF token = None \/ Falsy(Val(token))
    THEN [shouldAuth |-> TRUE, reason |-> "no_token"]
  ELSE IF Falsy(currentCsrf)
    THEN [shouldAuth |-> FALSE, reason |-> "no_csrf"]
  ELSE IF Falsy(currentUser)
    THEN [shouldAuth |-> FALSE, reason |-> "no_user"]
  ELSE IF currentUser # meta.lastUser
    THEN [shouldAuth |-> TRUE, reason |-> "user_changed"]
  ELSE IF currentCsrf # meta.lastCsrf
    THEN [shouldAuth |-> TRUE, reason |-> "csrf_changed"]
  ELSE IF t - meta.lastTime > AUTH_THROTTLE_INTERVAL
    THEN [shouldAuth |-> TRUE, reason |-> "time_elapsed"]
  ELSE IF meta.failureCount > 0
    THEN [shouldAuth |-> TRUE, reason |-> "retry_after_failure"]
  ELSE [shouldAuth |-> FALSE, reason |-> "throttled"]

(* shouldPerformAuth(token, meta, currentUser, currentCsrf), now = t.  token is *)
(* None (null) or Some(string).                                                *)
ShouldPerformAuth(token, meta, currentUser, currentCsrf, t) ==
  IF token = None \/ Falsy(Val(token))
    THEN [shouldAuth |-> TRUE, reason |-> "no_token"]
  ELSE IF Falsy(currentCsrf)
    THEN [shouldAuth |-> FALSE, reason |-> "no_csrf"]
  ELSE IF Falsy(currentUser)
    THEN [shouldAuth |-> FALSE, reason |-> "no_user"]
  ELSE IF currentUser # meta.lastUser
    THEN [shouldAuth |-> TRUE, reason |-> "user_changed"]
  ELSE IF currentCsrf # meta.lastCsrf
    THEN [shouldAuth |-> TRUE, reason |-> "csrf_changed"]
  ELSE IF t - meta.lastTime > AUTH_THROTTLE_INTERVAL
    THEN [shouldAuth |-> TRUE, reason |-> "time_elapsed"]
  ELSE IF meta.failureCount > 0 /\ t - meta.lastAttempt > RETRY_AFTER
    THEN [shouldAuth |-> TRUE, reason |-> "retry_after_failure"]
  ELSE [shouldAuth |-> FALSE, reason |-> "throttled"]

(* handleAuthRequest, lines 449-453, and the handler's sendResponse(result): *)
(* the promise awaited is the one of message `owner`                         *)
AuthRespond(S, i, owner) ==
  LET r == Val(M(S, owner).result) IN
  SendResponse(Upd(S, i, [M(S, i) EXCEPT !.seen = None]), i,
               Resp(r.success, "true", M(S, i).reason, r.token, r.error))

(* performAuthentication without its finally block *)
PerformAuthenticationFinally_Leak(S, i) == S

(* performAuthentication, the finally block *)
PerformAuthenticationFinally(S, i) == [S EXCEPT !.pending = 0]

(* performAuthentication, line 329: the callers that were handed the pending *)
(* promise of `owner` continue when it resolves, in the same task            *)
ResumeJoined(S, owner) ==
  [S EXCEPT !.msgs =
     [j \in DOMAIN S.msgs |->
        IF S.msgs[j].pc = "w_join" /\ S.msgs[j].joined = owner
          THEN M(AuthRespond(S, j, owner), j)
          ELSE S.msgs[j]]]

(* _executeAuth returns: its promise resolves, the await of the caller that *)
(* created it continues, and so do the awaits of the callers that joined    *)
ExecuteAuthReturn(S, i, result) ==
  ResumeJoined(
    AuthRespond(
      PerformAuthenticationFinally(Upd(S, i, [M(S, i) EXCEPT !.result = Some(result)]), i),
      i, i),
    i)

(* a catch block that also drops the stored token *)
ExecuteAuthCatch_DropToken(S, i, err) ==
  LET m == M(S, i)
      meta == [m.authMeta EXCEPT !.lastAttempt = m.startTime,
                                 !.failureCount = @ + 1]
  IN  Upd(SMSet(SMRemove(S, TOKEN), AUTH_META, meta), i,
          [m EXCEPT !.authMeta = meta, !.error = err, !.pc = "w_setmeta_fail",
                    !.wrote = @ \cup {AUTH_META}])

(* _executeAuth, the catch block up to await this.setAuthMeta(authMeta) *)
ExecuteAuthCatch(S, i, err) ==
  LET m == M(S, i)
      meta == [m.authMeta EXCEPT !.lastAttempt = m.startTime,
                                 !.failureCount = @ + 1]
  IN  Upd(SMSet(S, AUTH_META, meta), i,
          [m EXCEPT !.authMeta = meta, !.error = err, !.pc = "w_setmeta_fail",
                    !.wrote = @ \cup {AUTH_META}])

(* _executeAuth, step 5 recording the completion time as lastAttempt *)
ExecuteAuthSaveMeta_AttemptNow(S, i) ==
  LET m == M(S, i)
      meta == [lastTime |-> now, lastUser |-> m.user, lastCsrf |-> m.csrf,
               lastAttempt |-> now, failureCount |-> 0]
  IN  Upd(SMSet(S, AUTH_META, meta), i,
          [m EXCEPT !.authMeta = meta, !.pc = "w_setmeta_ok",
                    !.wrote = @ \cup {AUTH_META}])

(* _executeAuth, step 5 up to await this.setAuthMeta(authMeta) *)
ExecuteAuthSaveMeta(S, i) ==
  LET m == M(S, i)
      meta == [lastTime |-> now, lastUser |-> m.user, lastCsrf |-> m.csrf,
               lastAttempt |-> m.startTime, failureCount |-> 0]
  IN  Upd(SMSet(S, AUTH_META, meta), i,
          [m EXCEPT !.authMeta = meta, !.pc = "w_setmeta_ok",
                    !.wrote = @ \cup {AUTH_META}])

(* setToken(token): stores a truthy token; TRUE when it waits for the storage *)
SetTokenStores(token) == token # None /\ ~Falsy(Val(token))

SetToken(S, token) == IF SetTokenStores(token) THEN SMSet(S, TOKEN, Val(token)) ELSE S

(* _executeAuth after sendAuthData settled with `reply`: the response check *)
(* and step 4                                                               *)
ExecuteAuthAfterPost(S, i, reply) ==
  IF reply.kind = "error" THEN ExecuteAuthCatch(S, i, "HTTP error")
  ELSE IF reply.kind = "invalid" THEN ExecuteAuthCatch(S, i, "Invalid API response")
  ELSE LET S1 == Upd(S, i, [M(S, i) EXCEPT !.postToken = reply.token]) IN
       IF reply.token # None /\ ~Falsy(Val(reply.token))
         THEN Upd(SetToken(S1, reply.token), i,
                  [M(S1, i) EXCEPT !.pc = "w_settoken",
                                   !.wrote = IF SetTokenStores(reply.token)
                                             THEN @ \cup {TOKEN} ELSE @])
         ELSE ExecuteAuthSaveMeta(S1, i)

(* ApiClient.sendAuthData: the POST to /set_http_data is sent *)
SendAuthData(S, i) ==
  Upd(S, i, [M(S, i) EXCEPT !.sent = @ \cup {"post"}, !.pc = "w_post"])

(* _executeAuth, step 2 after getAllRelevantCookies resolved, and step 3 *)
ExecuteAuthAfterCookies(S, i) ==
  IF M(S, i).cookies = {} THEN ExecuteAuthCatch(S, i, "No cookies found")
  ELSE SendAuthData(S, i)

(* a function that called getAllRelevantCookies continues *)
AfterCookies(S, i) ==
  IF M(S, i).type = "GET_COOKIES"
    THEN SendResponse(S, i, [cookies |-> M(S, i).cookies])
    ELSE ExecuteAuthAfterCookies(S, i)

(* class CookieManager.  getAllRelevantCookies calls getRequiredCookies and *)
(* getRememberWebCookies; each returns its Cache entry when it has one (an  *)
(* object, so truthy) and otherwise reads chrome.cookies.                   *)
GetAllRelevantCookies(S, i) ==
  LET req == CacheGet(S.data, REQUIRED_KEY, now)
      d1  == CacheGetData(S.data, REQUIRED_KEY, now)
      rem == CacheGet(d1, REMEMBER_KEY, now)
      d2  == CacheGetData(d1, REMEMBER_KEY, now)
      have == (IF req = None THEN {} ELSE Val(req))
                \cup (IF rem = None THEN {} ELSE Val(rem))
      m == [M(S, i) EXCEPT !.cookies = have,
                           !.needReq = (req = None), !.needRem = (rem = None)]
      S1 == [S EXCEPT !.data = d2]
  IN  IF req # None /\ rem # None
        THEN AfterCookies(Upd(S1, i, m), i)
        ELSE Upd(S1, i, [m EXCEPT !.sent = @ \cup {"cookies"}, !.pc = "w_cookies"])

(* the chrome.cookies callbacks: the results are cached for 30 s and merged. *)
(* The callbacks of one call are taken as one task.                          *)
CookiesCallback(S, i, required, remember) ==
  LET m == M(S, i)
      d1 == IF m.needReq THEN CacheSet(S.data, REQUIRED_KEY, required, COOKIE_TTL, now)
            ELSE S.data
      d2 == IF m.needRem THEN CacheSet(d1, REMEMBER_KEY, remember, COOKIE_TTL, now)
            ELSE d1
      got == m.cookies \cup (IF m.needReq THEN required ELSE {})
                       \cup (IF m.needRem THEN remember ELSE {})
  IN  AfterCookies(
        Upd([S EXCEPT !.data = d2], i,
            [m EXCEPT !.cookies = got, !.needReq = FALSE, !.needRem = FALSE]), i)

(* _executeAuth going on to the cookies whatever the health check said *)
ExecuteAuthAfterHealth_NoCheck(S, i) == GetAllRelevantCookies(S, i)

(* _executeAuth, step 1 after checkHealth resolved, and the call of step 2 *)
ExecuteAuthAfterHealth(S, i) ==
  IF M(S, i).health.status # "healthy" THEN ExecuteAuthCatch(S, i, "API unhealthy")
  ELSE GetAllRelevantCookies(S, i)

(* getAuthStatus, the object returned, and the handler's sendResponse *)
GetAuthStatusRespond(S, i) ==
  LET m == M(S, i) IN
  SendResponse(S, i,
    StatusResp([hasToken |-> ~(m.token = None \/ Falsy(Val(m.token))),
                lastAuthTime |-> m.authMeta.lastTime,
                lastUser |-> m.authMeta.lastUser,
                failureCount |-> m.authMeta.failureCount,
                isHealthy |-> (m.health.status = "healthy")]))

(* a function that called checkHealth continues *)
AfterHealth(S, i) ==
  LET m == M(S, i) IN
  CASE m.type = "GET_AUTH_STATUS" -> GetAuthStatusRespond(S, i)
    [] m.type = "CHECK_HEALTH" ->
         SendResponse(S, i, [healthy |-> (m.health.status = "healthy"), data |-> m.health])
    [] m.type = "GET_HEALTH_CATEGORY" ->
         SendResponse(S, i, [category |-> m.health.category])
    [] OTHER -> ExecuteAuthAfterHealth(S, i)

(* checkHealth without the cache lookup of lines 136-141 *)
CheckHealth_NoCache(S, i) ==
  Upd(S, i, [M(S, i) EXCEPT !.sent = @ \cup {"health"}, !.pc = "w_health"])

(* ApiClient.checkHealth up to the request *)
CheckHealth(S, i) ==
  LET cached == CacheGet(S.data, HEALTH_KEY, now)
      S1 == [S EXCEPT !.data = CacheGetData(S.data, HEALTH_KEY, now)]
  IN  IF cached # None
        THEN AfterHealth(Upd(S1, i, [M(S1, i) EXCEPT !.health = Val(cached)]), i)
        ELSE Upd(S1, i, [M(S1, i) EXCEPT !.sent = @ \cup {"health"}, !.pc = "w_health"])

(* checkHealth persisting the whole health response *)
HealthCacheRecord_Whole(hdata, t) ==
  [status |-> hdata.status, category |-> hdata.category, timestamp |-> t]

(* what checkHealth persists: the categories of the health response *)
HealthCacheRecord(hdata, t) == [category |-> hdata.category, timestamp |-> t]

(* checkHealth with a catch block that returns the error without caching it *)
CheckHealthReply_NoErrorCache(S, i, reply) ==
  IF reply.ok
    THEN LET hdata == [status |-> reply.status, category |-> reply.category,
                       error |-> ABSENT]
             S1 == [S EXCEPT !.data = CacheSet(S.data, HEALTH_KEY, hdata, HEALTH_TTL, now)]
             m == [M(S, i) EXCEPT !.health = hdata]
         IN  IF hdata.category
               THEN Upd(SMSet(S1, HEALTH_CACHE, HealthCacheRecord(hdata, now)), i,
                        [m EXCEPT !.pc = "w_hstore", !.wrote = @ \cup {HEALTH_CACHE}])
               ELSE AfterHealth(Upd(S1, i, m), i)
    ELSE LET errorResponse == [status |-> "unhealthy", category |-> FALSE,
                               error |-> "request failed"]
         IN  AfterHealth(Upd(S, i, [M(S, i) EXCEPT !.health = errorResponse]), i)

(* ApiClient.checkHealth after makeRequest('/health') settled with `reply` *)
CheckHealthReply(S, i, reply) ==
  IF reply.ok
    THEN LET hdata == [status |-> reply.status, category |-> reply.category,
                       error |-> ABSENT]
             S1 == [S EXCEPT !.data = CacheSet(S.data, HEALTH_KEY, hdata, HEALTH_TTL, now)]
             m == [M(S, i) EXCEPT !.health = hdata]
         IN  IF hdata.category
               THEN Upd(SMSet(S1, HEALTH_CACHE, HealthCacheRecord(hdata, now)), i,
                        [m EXCEPT !.pc = "w_hstore", !.wrote = @ \cup {HEALTH_CACHE}])
               ELSE AfterHealth(Upd(S1, i, m), i)
    ELSE LET errorResponse == [status |-> "unhealthy", category |-> FALSE,
                               error |-> "request failed"]
             S1 == [S EXCEPT !.data =
                      CacheSet(S.data, HEALTH_KEY, errorResponse, HEALTH_ERROR_TTL, now)]
         IN  AfterHealth(Upd(S1, i, [M(S, i) EXCEPT !.health = errorResponse]), i)

(* _executeAuth, lines 346-347: startTime and await this.getAuthMeta() *)
ExecuteAuth(S, i) ==
  LET m == [M(S, i) EXCEPT !.startTime = now] IN
  IF SMHas(S, AUTH_META)
    THEN CheckHealth(
           Upd(S, i, [m EXCEPT !.authMeta = GetAuthMetaValue(SMCached(S, AUTH_META))]), i)
    ELSE Upd(S, i, [m EXCEPT !.sval = ChromeGet(S.storage, AUTH_META), !.pc = "w_rmeta"])

(* performAuthentication without the pendingAuthRequest guard *)
PerformAuthentication_NoGuard(S, i) == ExecuteAuth([S EXCEPT !.pending = i], i)

(* performAuthentication up to its await *)
PerformAuthentication(S, i) ==
  IF S.pending # 0
    THEN Upd(S, i, [M(S, i) EXCEPT !.joined = S.pending, !.pc = "w_join"])
    ELSE ExecuteAuth([S EXCEPT !.pending = i], i)

(* handleAuthRequest, lines 429-447, with the meta that getAuthMeta returned *)
HandleAuthDecide(S, i, meta) ==
  LET m == [M(S, i) EXCEPT
              !.seen = Some([token |-> M(S, i).token, meta |-> meta, at |-> now])]
      d == ShouldPerformAuth(m.token, meta, m.user, m.csrf, now)
  IN  IF ~d.shouldAuth
        THEN SendResponse(Upd(S, i, m), i,
                          Resp("true", "false", d.reason, m.token, ABSENT))
        ELSE PerformAuthentication(Upd(S, i, [m EXCEPT !.reason = d.reason]), i)

(* handleAuthRequest, line 427: await this.getAuthMeta() *)
HandleAuthGetMeta(S, i) ==
  IF SMHas(S, AUTH_META)
    THEN HandleAuthDecide(S, i, GetAuthMetaValue(SMCached(S, AUTH_META)))
    ELSE Upd(S, i, [M(S, i) EXCEPT !.sval = ChromeGet(S.storage, AUTH_META),
                                   !.pc = "w_meta"])

(* getToken: await StorageManager.get(TOKEN), for handleAuthRequest and GET_TOKEN *)
GetToken(S, i) ==
  IF SMHas(S, TOKEN)
    THEN Upd(S, i, [M(S, i) EXCEPT !.token = SMCached(S, TOKEN), !.pc = "got_token"])
    ELSE Upd(S, i, [M(S, i) EXCEPT !.sval = ChromeGet(S.storage, TOKEN), !.pc = "w_tok"])

(* getAuthStatus, line 468: await this.getAuthMeta() *)
GetAuthStatusGetMeta(S, i) ==
  IF SMHas(S, AUTH_META)
    THEN CheckHealth(
           Upd(S, i, [M(S, i) EXCEPT
                        !.authMeta = GetAuthMetaValue(SMCached(S, AUTH_META))]), i)
    ELSE Upd(S, i, [M(S, i) EXCEPT !.sval = ChromeGet(S.storage, AUTH_META),
                                   !.pc = "w_meta"])

(* SET_USER_STATUS and FETCH_USERS_BY_CATEGORY with the token they read *)
RequestWithToken(S, i) ==
  LET m == M(S, i) IN
  IF m.token = None \/ Falsy(Val(m.token))
    THEN SendResponse(S, i, ErrorResp("No authentication token available"))
    ELSE Upd(S, i, [m EXCEPT !.sent = @ \cup {"api"}, !.pc = "w_api"])

(* a function that called getToken continues *)
AfterToken(S, i) ==
  LET type == M(S, i).type IN
  IF M(S, i).pc # "got_token" THEN S
  ELSE IF type = "GET_TOKEN"
    THEN SendResponse(S, i, [token |-> M(S, i).token])
  ELSE IF type = "GET_AUTH_STATUS" THEN GetAuthStatusGetMeta(S, i)
  ELSE IF type \in {"SET_USER_STATUS", "FETCH_USERS_BY_CATEGORY"}
    THEN RequestWithToken(S, i)
  ELSE HandleAuthGetMeta(S, i)

(* handleAuthRequest with the test of line 418 reduced to !currentUser *)
HandleAuthRequest_UserOnly(S, i) ==
  LET m == M(S, i) IN
  IF ~m.hasData
    THEN SendResponse(S, i, Resp("false", "false", ABSENT, None, "TypeError"))
  ELSE IF Falsy(m.user)
    THEN SendResponse(S, i, Resp("false", "false", ABSENT, None,
                                 "Missing required auth data"))
  ELSE AfterToken(GetToken(S, i), i)

(* handleAuthRequest, lines 414-426 *)
HandleAuthRequest(S, i) ==
  LET m == M(S, i) IN
  IF ~m.hasData
    THEN SendResponse(S, i, Resp("false", "false", ABSENT, None, "TypeError"))
  ELSE IF Falsy(m.user) \/ Falsy(m.csrf)
    THEN SendResponse(S, i, Resp("false", "false", ABSENT, None,
                                 "Missing required auth data"))
  ELSE AfterToken(GetToken(S, i), i)

(* forceReauth up to await this.setAuthMeta({...}) *)
ForceReauth(S, i) ==
  Upd(SMSet(S, AUTH_META, DefaultMeta), i,
      [M(S, i) EXCEPT !.pc = "w_reset", !.wrote = @ \cup {AUTH_META}])

(* forceReauth, lines 492-496 *)
ForceReauthAfterReset(S, i) ==
  HandleAuthRequest(SMInvalidate([S EXCEPT !.data = CacheClear(S.data)], TOKEN), i)

----------------------------------------------------------------------------
(* MessageHandlers and the chrome.runtime.onMessage listener *)

HandlerNames ==
  {"HANDLE_AUTH", "GET_AUTH_STATUS", "FORCE_REAUTH", "CLEAR_TOKEN", "GET_TOKEN",
   "SET_USER_STATUS", "GET_COOKIES", "CHECK_HEALTH", "GET_HEALTH_CATEGORY",
   "FETCH_USERS_CARD_STATUS", "FETCH_USERS_BY_CATEGORY"}

(* MessageHandlers is an object literal: a property it does not define is *)
(* looked up on Object.prototype                                          *)
ObjectPrototypeKeys == {"toString", "constructor", "valueOf", "hasOwnProperty"}

(* MessageHandlers[message.type] *)
Lookup(type) ==
  IF type \in HandlerNames THEN "handler"
  ELSE IF type \in ObjectPrototypeKeys THEN "inherited"
  ELSE "undefined"

(* MessageHandlers.CLEAR_TOKEN up to await StorageManager.remove(TOKEN) *)
ClearToken(S, i) ==
  Upd(SMRemove(S, TOKEN), i,
      [M(S, i) EXCEPT !.pc = "w_remove", !.wrote = @ \cup {TOKEN}])

(* SET_USER_STATUS and FETCH_USERS_BY_CATEGORY up to await getToken() *)
CheckedRequest(S, i) ==
  LET m == M(S, i) IN
  IF ~m.hasData THEN SendResponse(S, i, ErrorResp("TypeError"))
  ELSE IF ~m.valid THEN SendResponse(S, i, ErrorResp("Missing required parameters"))
  ELSE AfterToken(GetToken(S, i), i)

(* GET_HEALTH_CATEGORY with the record that StorageManager.get returned *)
HealthCategoryDecide(S, i, cached) ==
  IF cached # None /\ now - Val(cached).timestamp < CACHE_DURATION
    THEN SendResponse(S, i, [category |-> Val(cached).category])
    ELSE CheckHealth(S, i)

(* GET_HEALTH_CATEGORY up to await StorageManager.get(HEALTH_CACHE) *)
GetHealthCategory(S, i) ==
  IF SMHas(S, HEALTH_CACHE)
    THEN HealthCategoryDecide(S, i, SMCached(S, HEALTH_CACHE))
    ELSE Upd(S, i, [M(S, i) EXCEPT !.sval = ChromeGet(S.storage, HEALTH_CACHE),
                                   !.pc = "w_hcache"])

(* FETCH_USERS_CARD_STATUS up to the end of the handler's synchronous part *)
FetchUsersCardStatus(S, i) ==
  LET m == M(S, i) IN
  IF ~m.hasData THEN SendResponse(S, i, ErrorResp("TypeError"))
  ELSE IF ~m.valid THEN SendResponse(S, i, ErrorResp("Invalid input parameters"))
  ELSE IF RequestKey(m.req) \in DOMAIN S.pendingStatus
    THEN Upd(S, i, [m EXCEPT !.joined = S.pendingStatus[RequestKey(m.req)],
                             !.pc = "w_pjoin"])
  ELSE Upd([S EXCEPT !.pendingStatus = Put(S.pendingStatus, RequestKey(m.req), i)], i,
           [m EXCEPT !.sent = @ \cup {"api"}, !.pc = "w_api"])

(* the promise of FETCH_USERS_CARD_STATUS settles: the then/catch callbacks *)
(* of the handler that created it and of those that found it pending run    *)
FetchUsersCardStatusSettled(S, i, r) ==
  LET S1 == [S EXCEPT !.pendingStatus = Remove(S.pendingStatus, RequestKey(M(S, i).req))]
      S2 == SendResponse(S1, i, r)
  IN  [S2 EXCEPT !.msgs =
         [j \in DOMAIN S2.msgs |->
            IF S2.msgs[j].pc = "w_pjoin" /\ S2.msgs[j].joined = i
              THEN M(SendResponse(S2, j, r), j)
              ELSE S2.msgs[j]]]

(* ApiClient.makeRequest settled for a handler waiting in "w_api" *)
MakeRequestSettled(S, i, reply) ==
  LET r == IF reply.ok THEN DataResp(reply.data) ELSE ErrorResp("request failed") IN
  IF M(S, i).type = "FETCH_USERS_CARD_STATUS"
    THEN FetchUsersCardStatusSettled(S, i, r)
    ELSE SendResponse(S, i, r)

(* the handler of a message, up to its first wait *)
Handler(S, i) ==
  LET type == M(S, i).type IN
  CASE type = "HANDLE_AUTH" -> HandleAuthRequest(S, i)
    [] type = "GET_AUTH_STATUS" -> AfterToken(GetToken(S, i), i)
    [] type = "FORCE_REAUTH" -> ForceReauth(S, i)
    [] type = "CLEAR_TOKEN" -> ClearToken(S, i)
    [] type = "GET_TOKEN" -> AfterToken(GetToken(S, i), i)
    [] type = "SET_USER_STATUS" -> CheckedRequest(S, i)
    [] type = "GET_COOKIES" -> GetAllRelevantCookies(S, i)
    [] type = "CHECK_HEALTH" -> CheckHealth(S, i)
    [] type = "GET_HEALTH_CATEGORY" -> GetHealthCategory(S, i)
    [] type = "FETCH_USERS_CARD_STATUS" -> FetchUsersCardStatus(S, i)
    [] type = "FETCH_USERS_BY_CATEGORY" -> CheckedRequest(S, i)

(* the listener.  A value found on Object.prototype is called as a handler; *)
(* what it returns has no catch method (or the call itself fails), so the   *)
(* listener throws before anything is sent.                                 *)
OnMessage(S, i) ==
  LET found == Lookup(M(S, i).type) IN
  IF found = "undefined"
    THEN Upd(S, i, [M(S, i) EXCEPT
           !.resp = Some(UnknownResp),
           !.nresp = @ + 1, !.sync = TRUE, !.pc = "done"])
  ELSE IF found = "inherited"
    THEN Upd(S, i, [M(S, i) EXCEPT !.thrown = TRUE, !.pc = "done"])
  ELSE Handler(S, i)

(* a callback of chrome.storage.local runs and the function waiting for it *)
(* continues                                                               *)
StorageCallbackStep(S, i) ==
  LET m == M(S, i) IN
  CASE m.pc = "w_tok" ->
         AfterToken(Upd(SMGetCallback(S, TOKEN, m.sval), i,
                        [m EXCEPT !.token = m.sval, !.pc = "got_token"]), i)
    [] m.pc = "w_meta" /\ m.type = "GET_AUTH_STATUS" ->
         CheckHealth(Upd(SMGetCallback(S, AUTH_META, m.sval), i,
                         [m EXCEPT !.authMeta = GetAuthMetaValue(m.sval)]), i)
    [] m.pc = "w_meta" /\ m.type # "GET_AUTH_STATUS" ->
         HandleAuthDecide(SMGetCallback(S, AUTH_META, m.sval), i, GetAuthMetaValue(m.sval))
    [] m.pc = "w_hcache" ->
         HealthCategoryDecide(SMGetCallback(S, HEALTH_CACHE, m.sval), i, m.sval)
    [] m.pc = "w_rmeta" ->
         CheckHealth(Upd(SMGetCallback(S, AUTH_META, m.sval), i,
                         [m EXCEPT !.authMeta = GetAuthMetaValue(m.sval)]), i)
    [] m.pc = "w_hstore" -> AfterHealth(S, i)
    [] m.pc = "w_settoken" -> ExecuteAuthSaveMeta(S, i)
    [] m.pc = "w_setmeta_ok" -> ExecuteAuthReturn(S, i, Result("true", m.postToken, ABSENT))
    [] m.pc = "w_setmeta_fail" -> ExecuteAuthReturn(S, i, Result("false", None, m.error))
    [] m.pc = "w_reset" -> ForceReauthAfterReset(S, i)
    [] m.pc = "w_remove" -> SendResponse(S, i, [success |-> "true"])

StorageWaits ==
  {"w_tok", "w_meta", "w_rmeta", "w_hcache", "w_hstore", "w_settoken", "w_setmeta_ok",
   "w_setmeta_fail", "w_reset", "w_remove"}

----------------------------------------------------------------------------
(* The environment: what the page scripts send and what the browser and the *)
(* API answer                                                               *)

CoreTypes == {"HANDLE_AUTH", "FORCE_REAUTH", "CLEAR_TOKEN", "GET_TOKEN"}

AuthInput(user, csrf) == Input(TRUE, user, csrf, FALSE, NoReq)

NoInput == Input(FALSE, NULL, NULL, FALSE, NoReq)

(* msg.data of the messages of the authentication core *)
CoreInputs(type) ==
  IF type = "HANDLE_AUTH"
    THEN {AuthInput("u1", "c1"), AuthInput("u2", "c1"), AuthInput("u1", "c2"),
          AuthInput(NULL, "c1")}
  ELSE IF type = "FORCE_REAUTH"
    THEN {AuthInput("u1", "c1"), AuthInput("u2", "c1")}
  ELSE {NoInput}

HealthReplies ==
  {[ok |-> TRUE, status |-> "healthy", category |-> TRUE],
   [ok |-> TRUE, status |-> "healthy", category |-> FALSE],
   [ok |-> FALSE, status |-> ABSENT, category |-> FALSE]}

CookieJars ==
  {<<{}, {}>>, <<{"mangabuff_session"}, {"remember_web_1"}>>}

PostReplies ==
  {[kind |-> "error", token |-> None], [kind |-> "invalid", token |-> None],
   [kind |-> "ok", token |-> None]}
    \cup {[kind |-> "ok", token |-> Some(t)] : t \in Tokens \cup {EMPTY}}


(* what an earlier run of the script may have left in chrome.storage.local *)
PersistedMeta ==
  [lastTime |-> StartTime - 1, lastUser |-> "u1", lastCsrf |-> "c1",
   lastAttempt |-> StartTime - 1, failureCount |-> 0]

InitialStorages ==
  {EmptyMap,
   [k \in {TOKEN, AUTH_META} |-> IF k = TOKEN THEN "t1" ELSE PersistedMeta]}

Cur ==
  [data |-> data, cache |-> cache, storage |-> storage,
   pending |-> pendingAuthRequest, pendingStatus |-> PendingUserStatusRequests,
   msgs |-> msgs]

Apply(S) ==
  /\ data' = S.data
  /\ cache' = S.cache
  /\ storage' = S.storage
  /\ pendingAuthRequest' = S.pending
  /\ PendingUserStatusRequests' = S.pendingStatus
  /\ msgs' = S.msgs

Ids == 1..Len(msgs)

Init ==
  /\ now = StartTime
  /\ ticks = 0
  /\ data = EmptyMap
  /\ cache = EmptyMap
  /\ storage \in InitialStorages
  /\ pendingAuthRequest = 0
  /\ PendingUserStatusRequests = EmptyMap
  /\ msgs = <<>>
  /\ storageQueue = <<>>
  /\ cleanupDue = FALSE
  /\ probe = None

(* chrome.storage.local serves the calls of the script in the order in which *)
(* they were made: handler i, which has just run, waits at the end of the    *)
(* queue when it has called chrome.storage.local again                       *)
Requeue(i) ==
  LET q == SelectSeq(storageQueue, LAMBDA j : j # i) IN
  storageQueue' = IF msgs'[i].pc \in StorageWaits THEN Append(q, i) ELSE q

(* the listener runs on a new message *)
Deliver(type, in) ==
  /\ Apply(OnMessage([Cur EXCEPT !.msgs =
                        Append(msgs, NewMsg(type, in))],
                     Len(msgs) + 1))
  /\ Requeue(Len(msgs) + 1)

(* a message of the authentication core arrives *)
Receive ==
  /\ Len(msgs) < MaxMsgs
  /\ \E type \in CoreTypes : \E in \in CoreInputs(type) : Deliver(type, in)
  /\ UNCHANGED <<now, ticks, cleanupDue, probe>>

StorageCallback ==
  /\ storageQueue # <<>>
  /\ LET i == Head(storageQueue) IN
       /\ msgs[i].pc \in StorageWaits
       /\ Apply(StorageCallbackStep(Cur, i))
       /\ Requeue(i)
  /\ UNCHANGED <<now, ticks, cleanupDue, probe>>

HealthReply ==
  /\ \E i \in Ids :
       /\ msgs[i].pc = "w_health"
       /\ \E reply \in HealthReplies : Apply(CheckHealthReply(Cur, i, reply))
       /\ Requeue(i)
  /\ UNCHANGED <<now, ticks, cleanupDue, probe>>

CookiesReply ==
  /\ \E i \in Ids :
       /\ msgs[i].pc = "w_cookies"
       /\ \E jar \in CookieJars : Apply(CookiesCallback(Cur, i, jar[1], jar[2]))
       /\ Requeue(i)
  /\ UNCHANGED <<now, ticks, cleanupDue, probe>>

PostReply ==
  /\ \E i \in Ids :
       /\ msgs[i].pc = "w_post"
       /\ \E reply \in PostReplies : Apply(ExecuteAuthAfterPost(Cur, i, reply))
       /\ Requeue(i)
  /\ UNCHANGED <<now, ticks, cleanupDue, probe>>

(* setInterval(..., 10 min): Cache.clear() *)
PeriodicCleanup ==
  /\ cleanupDue
  /\ data' = CacheClear(data)
  /\ cleanupDue' = FALSE
  /\ UNCHANGED <<now, ticks, cache, storage, pendingAuthRequest,
                 PendingUserStatusRequests, msgs, storageQueue, probe>>

(* the multiples of CLEANUP_INTERVAL since the script started, up to time t *)
Firings(t) == (t - StartTime) \div CLEANUP_INTERVAL

(* The clock advances by d.  A firing of the cleanup timer that falls inside *)
(* the interval has run; one that falls on its end is due.                   *)
Advance(d) ==
  /\ ticks < MaxTicks
  /\ ~cleanupDue
  /\ now' = now + d
  /\ cleanupDue' = ((now + d - StartTime) % CLEANUP_INTERVAL = 0)
  /\ data' = IF Firings(now + d - 1) > Firings(now) THEN CacheClear(data) ELSE data
  /\ ticks' = ticks + 1
  /\ UNCHANGED <<cache, storage, pendingAuthRequest, PendingUserStatusRequests,
                 msgs, storageQueue, probe>>

(* A callback of chrome.storage or chrome.cookies comes within milliseconds: *)
(* a unit of time (30 s) passes only while no handler waits for one.         *)
Tick ==
  /\ \A i \in Ids : msgs[i].pc \notin StorageWaits \cup {"w_cookies"}
  /\ Advance(1)

(* Every request to the API is aborted after at most 5 minutes (makeRequest, *)
(* timeout): two hours pass only while no handler is in flight.              *)
Idle ==
  /\ \A i \in Ids : msgs[i].pc = "done"
  /\ Advance(AUTH_THROTTLE_INTERVAL)

Next ==
  \/ Receive
  \/ StorageCallback
  \/ HealthReply
  \/ CookiesReply
  \/ PostReply
  \/ PeriodicCleanup
  \/ Tick
  \/ Idle

Spec == Init /\ [][Next]_vars

----------------------------------------------------------------------------
(* The listener with every kind of message, at one instant *)

AnyTypes == HandlerNames \cup {"toString", "PING"}

ApiReplies ==
  {[ok |-> TRUE, data |-> "d1"], [ok |-> TRUE, data |-> "d2"],
   [ok |-> FALSE, data |-> ABSENT]}

(* msg.data of a message of any type *)
AnyInputs(type) ==
  IF type = "HANDLE_AUTH"
    THEN {AuthInput("u1", "c1"), AuthInput(NULL, "c1"), AuthInput("u1", EMPTY), NoInput}
  ELSE IF type = "FORCE_REAUTH" THEN {AuthInput("u1", "c1")}
  ELSE IF type \in {"SET_USER_STATUS", "FETCH_USERS_BY_CATEGORY"}
    THEN {Input(TRUE, NULL, NULL, TRUE, NoReq), Input(TRUE, NULL, NULL, FALSE, NoReq)}
  ELSE IF type = "FETCH_USERS_CARD_STATUS"
    THEN {Input(TRUE, NULL, NULL, TRUE, Req(1, <<1>>)), Input(TRUE, NULL, NULL, FALSE, NoReq),
          NoInput}
  ELSE {NoInput}

ReceiveAny ==
  /\ Len(msgs) < MaxAnyMsgs
  /\ \E type \in AnyTypes : \E in \in AnyInputs(type) : Deliver(type, in)
  /\ UNCHANGED <<now, ticks, cleanupDue, probe>>

ApiReply ==
  /\ \E i \in Ids :
       /\ msgs[i].pc = "w_api"
       /\ \E reply \in ApiReplies : Apply(MakeRequestSettled(Cur, i, reply))
       /\ Requeue(i)
  /\ UNCHANGED <<now, ticks, cleanupDue, probe>>

NextAny ==
  \/ ReceiveAny
  \/ StorageCallback
  \/ HealthReply
  \/ CookiesReply
  \/ PostReply
  \/ ApiReply

SpecAny == Init /\ [][NextAny]_vars

----------------------------------------------------------------------------
(* Cache on its own: set, get and clear at any time *)

CacheTestKeys == {"a", "b"}
CacheTestValues == {"v1", "v2"}
CacheTestTtls == {0, 1}

(* probe.last: per key the last Cache.set since the last Cache.clear;       *)
(* probe.got: the Cache.get that has just been made                         *)
InitCache ==
  /\ now = StartTime
  /\ ticks = 0
  /\ data = EmptyMap
  /\ cache = EmptyMap
  /\ storage = EmptyMap
  /\ pendingAuthRequest = 0
  /\ PendingUserStatusRequests = EmptyMap
  /\ msgs = <<>>
  /\ storageQueue = <<>>
  /\ cleanupDue = FALSE
  /\ probe = [last |-> [k \in CacheTestKeys |-> None], got |-> None]

CacheFrame ==
  UNCHANGED <<ticks, cache, storage, pendingAuthRequest, PendingUserStatusRequests,
              msgs, storageQueue, cleanupDue>>

CallCacheSet ==
  /\ \E key \in CacheTestKeys, value \in CacheTestValues, ttl \in CacheTestTtls :
       /\ data' = CacheSet(data, key, value, ttl, now)
       /\ probe' = [last |-> [probe.last EXCEPT
                                ![key] = Some([value |-> value, at |-> now, ttl |-> ttl])],
                    got |-> None]
  /\ now' = now
  /\ CacheFrame

CallCacheGet ==
  /\ \E key \in CacheTestKeys :
       /\ data' = CacheGetData(data, key, now)
       /\ probe' = [probe EXCEPT
                      !.got = Some([key |-> key, out |-> CacheGet(data, key, now)])]
  /\ now' = now
  /\ CacheFrame

CallCacheClear ==
  /\ data' = CacheClear(data)
  /\ probe' = [last |-> [k \in CacheTestKeys |-> None], got |-> None]
  /\ now' = now
  /\ CacheFrame

CacheTick ==
  /\ now < StartTime + MaxCacheTime
  /\ now' = now + 1
  /\ probe' = [probe EXCEPT !.got = None]
  /\ data' = data
  /\ CacheFrame

NextCache == CallCacheSet \/ CallCacheGet \/ CallCacheClear \/ CacheTick

SpecCache == InitCache /\ [][NextCache]_vars

----------------------------------------------------------------------------
(* shouldPerformAuth on its own *)

ShouldTokens == {None, Some(EMPTY), Some("t1")}
ShouldUsers == {NULL, EMPTY, "u1", "u2"}
ShouldCsrfs == {NULL, "c1", "c2"}
ShouldMetas ==
  [lastTime : {StartTime - AUTH_THROTTLE_INTERVAL - 1, StartTime - AUTH_THROTTLE_INTERVAL},
   lastUser : {NULL, "u1"},
   lastCsrf : {NULL, "c1"},
   lastAttempt : {StartTime - RETRY_AFTER - 1, StartTime - RETRY_AFTER},
   failureCount : {0, 1, 2}]

InitShould ==
  /\ now = StartTime
  /\ ticks = 0
  /\ data = EmptyMap
  /\ cache = EmptyMap
  /\ storage = EmptyMap
  /\ pendingAuthRequest = 0
  /\ PendingUserStatusRequests = EmptyMap
  /\ msgs = <<>>
  /\ storageQueue = <<>>
  /\ cleanupDue = FALSE
  /\ \E token \in ShouldTokens, meta \in ShouldMetas,
        currentUser \in ShouldUsers, currentCsrf \in ShouldCsrfs :
       probe = [token |-> token, meta |-> meta, currentUser |-> currentUser,
                currentCsrf |-> currentCsrf, out |-> None]

CallShouldPerformAuth ==
  /\ probe.out = None
  /\ probe' = [probe EXCEPT
                 !.out = Some(ShouldPerformAuth(probe.token, probe.meta, probe.currentUser,
                                                probe.currentCsrf, now))]
  /\ UNCHANGED <<now, ticks, data, cache, storage, pendingAuthRequest,
                 PendingUserStatusRequests, msgs, storageQueue, cleanupDue>>

NextShould == CallShouldPerformAuth

SpecShould == InitShould /\ [][NextShould]_vars

----------------------------------------------------------------------------
(* Properties of the authentication core, checked under Spec *)

AuthTypes == {"HANDLE_AUTH", "FORCE_REAUTH"}

(* the positions of a handler inside a run of _executeAuth that it started *)
RunPcs ==
  {"w_rmeta", "w_health", "w_hstore", "w_cookies", "w_post", "w_settoken",
   "w_setmeta_ok", "w_setmeta_fail"}

InRun(i) == msgs[i].type \in AuthTypes /\ msgs[i].pc \in RunPcs

Runs == {i \in Ids : InRun(i)}

(* C1: at most one run of _executeAuth is in flight; a performAuthentication  *)
(* call made while pendingAuthRequest is set (the caller joined the promise   *)
(* of another message) requests no health check, no cookies and no POST, and  *)
(* is answered with the result of the run it joined.                          *)
C1_SingleFlight ==
  /\ Cardinality(Runs) <= 1
  /\ \A i \in Ids :
       (msgs[i].type \in AuthTypes /\ msgs[i].joined # 0) =>
         /\ msgs[i].joined \in Ids \ {i}
         /\ msgs[i].sent = {}
         /\ msgs[i].result = None
         /\ msgs[i].pc \in {"w_join", "done"}
         /\ msgs[i].pc = "w_join" => InRun(msgs[i].joined)
         /\ msgs[i].pc = "done" =>
              LET r == Val(msgs[msgs[i].joined].result)
                  a == Val(msgs[i].resp)
              IN  /\ a.success = r.success
                  /\ a.token = r.token
                  /\ a.error = r.error

(* a caller that joined a run in flight has been answered *)
C1_Witness ==
  \E i \in Ids : msgs[i].joined # 0 /\ msgs[i].pc = "done" /\ msgs[i].nresp = 1

(* C2: the case in which handleAuthRequest skips authentication, stated on   *)
(* what the call read (token, meta) and the time of its decision.            *)
C2_Pre(m) ==
  LET s == Val(m.seen) IN
  /\ s.token # None
  /\ m.user = s.meta.lastUser
  /\ m.csrf = s.meta.lastCsrf
  /\ s.at - s.meta.lastTime <= AUTH_THROTTLE_INTERVAL
  /\ \/ s.meta.failureCount = 0
     \/ s.at - s.meta.lastAttempt <= RETRY_AFTER

(* C2: in that case handleAuthRequest answers success true, shouldAuth false, *)
(* reason "throttled" with the token it read, sends no request, and writes    *)
(* nothing to storage (a FORCE_REAUTH has written only its reset before).     *)
C2_Throttled ==
  \A i \in Ids :
    LET m == msgs[i] IN
    (m.type \in AuthTypes /\ m.seen # None /\ C2_Pre(m)) =>
      /\ m.pc = "done"
      /\ m.resp = Some(Resp("true", "false", "throttled", Val(m.seen).token, ABSENT))
      /\ m.nresp = 1
      /\ m.sent = {}
      /\ m.joined = 0 /\ m.result = None
      /\ m.wrote = IF m.type = "HANDLE_AUTH" THEN {} ELSE {AUTH_META}

(* a HANDLE_AUTH was skipped while an earlier failure was less than 30 s old *)
C2_Witness ==
  \E i \in Ids :
    /\ msgs[i].type = "HANDLE_AUTH" /\ msgs[i].seen # None /\ C2_Pre(msgs[i])
    /\ Val(msgs[i].seen).meta.failureCount > 0
    /\ msgs[i].pc = "done"

(* C6 as stated: only the token and the auth metadata are ever in            *)
(* chrome.storage.local                                                      *)
C6_OnlyTokenAndMeta == DOMAIN storage \subseteq {TOKEN, AUTH_META}

(* C6, amended: chrome.storage.local holds the token, the auth metadata and, *)
(* once a /health response carried categories, the record {category,         *)
(* timestamp} under mbf_health_cache; the health status and the cookies are  *)
(* only in Cache.data.                                                       *)
C6_PersistedEntities ==
  /\ DOMAIN storage \subseteq {TOKEN, AUTH_META, HEALTH_CACHE}
  /\ TOKEN \in DOMAIN storage => storage[TOKEN] \in Tokens \cup {"t1"}
  /\ AUTH_META \in DOMAIN storage => DOMAIN storage[AUTH_META] = DOMAIN DefaultMeta
  /\ HEALTH_CACHE \in DOMAIN storage =>
       DOMAIN storage[HEALTH_CACHE] = {"category", "timestamp"}
  /\ \A i \in Ids : msgs[i].wrote \subseteq {TOKEN, AUTH_META, HEALTH_CACHE}

(* the categories of a health response were persisted while the health      *)
(* status and the cookies are cached in memory                             *)
C6_Witness ==
  /\ HEALTH_CACHE \in DOMAIN storage
  /\ HEALTH_KEY \in DOMAIN data
  /\ REQUIRED_KEY \in DOMAIN data

(* C7: pendingAuthRequest is set exactly while the run that set it is in     *)
(* flight: when a run has finished the guard is null again, and whoever      *)
(* waits for a promise waits for a run in flight or for a result.            *)
C7_GuardReleased ==
  /\ pendingAuthRequest = 0 => Runs = {}
  /\ pendingAuthRequest # 0 => Runs = {pendingAuthRequest}
  /\ \A i \in Ids : msgs[i].pc = "w_join" => msgs[i].joined = pendingAuthRequest

(* a run has finished (failed) and a later call has started a fresh one *)
C7_Witness ==
  \E i, j \in Ids :
    /\ i < j
    /\ msgs[i].result # None /\ msgs[i].pc = "done"
    /\ InRun(j) /\ pendingAuthRequest = j

(* the stored auth metadata, as getAuthMeta would read them from storage *)
StoredMeta(st) == GetAuthMetaValue(ChromeGet(st, AUTH_META))

(* C8 as stated: the step in which an attempt fails raises the stored        *)
(* failureCount by one, sets lastAttempt to the start of the attempt and     *)
(* leaves lastTime, lastUser, lastCsrf and the token as they were stored;    *)
(* the attempt then resolves with success false and the error.               *)
C8_FailureRecorded ==
  [][\A i \in Ids :
       /\ (msgs[i].pc # "w_setmeta_fail" /\ msgs'[i].pc = "w_setmeta_fail") =>
            /\ StoredMeta(storage') =
                 [StoredMeta(storage) EXCEPT !.lastAttempt = msgs[i].startTime,
                                             !.failureCount = @ + 1]
            /\ ChromeGet(storage', TOKEN) = ChromeGet(storage, TOKEN)
       /\ (msgs[i].pc = "w_setmeta_fail" /\ msgs'[i].pc = "done") =>
            /\ msgs'[i].result = Some(Result("false", None, msgs[i].error))
            /\ Val(msgs'[i].resp).success = "false"
     ]_vars

(* C9: the step in which an attempt succeeds stores lastUser and lastCsrf of *)
(* the attempt, lastTime = the time of that step, lastAttempt = the start of *)
(* the attempt and failureCount 0; the attempt then resolves with success    *)
(* true and the token of the API response.                                   *)
C9_SuccessRecorded ==
  [][\A i \in Ids :
       /\ (msgs[i].pc # "w_setmeta_ok" /\ msgs'[i].pc = "w_setmeta_ok") =>
            /\ AUTH_META \in DOMAIN storage'
            /\ storage'[AUTH_META] =
                 [lastTime |-> now, lastUser |-> msgs[i].user,
                  lastCsrf |-> msgs[i].csrf, lastAttempt |-> msgs[i].startTime,
                  failureCount |-> 0]
            /\ cache'[AUTH_META] = Some(storage'[AUTH_META])
       /\ (msgs[i].pc = "w_setmeta_ok" /\ msgs'[i].pc = "done") =>
            /\ msgs'[i].result = Some(Result("true", msgs[i].postToken, ABSENT))
            /\ Val(msgs'[i].resp).success = "true"
            /\ Val(msgs'[i].resp).token = msgs[i].postToken
     ]_vars

(* an attempt that started before the current time has stored its success *)
C9_Witness ==
  \E i \in Ids :
    /\ msgs[i].pc = "w_setmeta_ok"
    /\ msgs[i].startTime < now
    /\ AUTH_META \in DOMAIN storage
    /\ storage[AUTH_META].lastUser = msgs[i].user
    /\ storage[AUTH_META].lastAttempt = msgs[i].startTime
    /\ storage[AUTH_META].lastTime = now

(* C10: inside an attempt the POST to /set_http_data comes after a health   *)
(* check that said "healthy" and after at least one cookie was collected;   *)
(* an attempt that sent no POST has failed.                                 *)
C10_StepOrder ==
  \A i \in Ids :
    LET m == msgs[i] IN
    /\ ("post" \in m.sent /\ m.pc # "done") =>
         m.health.status = "healthy" /\ m.cookies # {}
    /\ m.pc \in {"w_rmeta", "w_health", "w_hstore"} =>
         "post" \notin m.sent /\ "cookies" \notin m.sent
    /\ m.pc = "w_cookies" => "post" \notin m.sent /\ m.health.status = "healthy"
    /\ (m.result # None /\ "post" \notin m.sent) => Val(m.result).success = "false"

(* an attempt asked /health, read the cookies and has sent its POST *)
C10_Witness ==
  \E i \in Ids : msgs[i].pc = "w_post" /\ msgs[i].sent = {"health", "cookies", "post"}

----------------------------------------------------------------------------
(* Properties of shouldPerformAuth, checked under SpecShould *)

(* the cases of the decision in their order, as conditions on the input *)
ShouldCases ==
  <<[when |-> probe.token = None \/ Val(probe.token) = EMPTY,
     shouldAuth |-> TRUE, reason |-> "no_token"],
    [when |-> probe.currentCsrf \in {NULL, EMPTY},
     shouldAuth |-> FALSE, reason |-> "no_csrf"],
    [when |-> probe.currentUser \in {NULL, EMPTY},
     shouldAuth |-> FALSE, reason |-> "no_user"],
    [when |-> probe.currentUser # probe.meta.lastUser,
     shouldAuth |-> TRUE, reason |-> "user_changed"],
    [when |-> probe.currentCsrf # probe.meta.lastCsrf,
     shouldAuth |-> TRUE, reason |-> "csrf_changed"],
    [when |-> now - probe.meta.lastTime > AUTH_THROTTLE_INTERVAL,
     shouldAuth |-> TRUE, reason |-> "time_elapsed"],
    [when |-> probe.meta.failureCount > 0 /\ now - probe.meta.lastAttempt > RETRY_AFTER,
     shouldAuth |-> TRUE, reason |-> "retry_after_failure"],
    [when |-> TRUE, shouldAuth |-> FALSE, reason |-> "throttled"]>>

(* C3: for every input shouldPerformAuth returns (shouldAuth, reason) of the *)
(* first case of the fixed order whose condition the input meets.            *)
C3_FirstMatchingCase ==
  probe.out # None =>
    \E k \in 1..Len(ShouldCases) :
      /\ ShouldCases[k].when
      /\ \A j \in 1..(k - 1) : ~ShouldCases[j].when
      /\ Val(probe.out) = [shouldAuth |-> ShouldCases[k].shouldAuth,
                           reason |-> ShouldCases[k].reason]

(* shouldPerformAuth was called on an input that meets the condition of an  *)
(* earlier and of a later case (csrf changed, and a failure older than 30 s) *)
C3_Witness ==
  /\ probe.out # None
  /\ Val(probe.out).reason = "csrf_changed"
  /\ probe.meta.failureCount > 0
  /\ now - probe.meta.lastAttempt > RETRY_AFTER

----------------------------------------------------------------------------
(* Properties of Cache, checked under SpecCache *)

(* C4: a Cache.get of a key made after the expiry (set time + ttl) of its   *)
(* last set returns null and removes the entry; made up to the expiry it    *)
(* returns the value of that last set; for a key not set since the start or *)
(* since the last clear it returns null.                                    *)
C4_GetRespectsExpiry ==
  probe.got # None =>
    LET g == Val(probe.got)
        l == probe.last[g.key]
    IN  IF l = None THEN g.out = None /\ g.key \notin DOMAIN data
        ELSE IF now > Val(l).at + Val(l).ttl
          THEN g.out = None /\ g.key \notin DOMAIN data
        ELSE g.out = Some(Val(l).value)

(* a get came after the expiry of an entry that had been set *)
C4_Witness ==
  /\ probe.got # None
  /\ probe.last[Val(probe.got).key] # None
  /\ Val(probe.got).out = None

----------------------------------------------------------------------------
(* Properties of the listener, checked under SpecAny *)

(* C5 as stated: a message whose handling has ended got exactly one         *)
(* sendResponse call, no message ever gets two, and a type that             *)
(* MessageHandlers does not define is answered before the listener returns  *)
(* with {error: "Unknown message type"}.                                    *)
C5_ExactlyOneResponse ==
  \A i \in Ids :
    /\ msgs[i].nresp <= 1
    /\ msgs[i].pc = "done" => msgs[i].nresp = 1 /\ msgs[i].resp # None
    /\ msgs[i].type \notin HandlerNames =>
         msgs[i].sync /\ msgs[i].resp = Some(UnknownResp)

----------------------------------------------------------------------------
(* Properties of the stored token and of the handlers around it, under Spec *)

(* the token in chrome.storage.local: None or Some(token) *)
StoredToken(st) == ChromeGet(st, TOKEN)

(* C11: a stored token is never empty, and the stored token changes only on *)
(* a step on which a run stores the non-empty token of a valid response of  *)
(* /set_http_data, or on which CLEAR_TOKEN removes it.                      *)
C11_TokenChanges ==
  /\ [](StoredToken(storage) # None => ~Falsy(Val(StoredToken(storage))))
  /\ [][StoredToken(storage') # StoredToken(storage) =>
          \/ \E i \in Ids :
               /\ msgs[i].pc = "w_post" /\ msgs'[i].pc = "w_settoken"
               /\ msgs'[i].postToken # None
               /\ ~Falsy(Val(msgs'[i].postToken))
               /\ StoredToken(storage') = msgs'[i].postToken
          \/ /\ Len(msgs') = Len(msgs) + 1
             /\ msgs'[Len(msgs')].type = "CLEAR_TOKEN"
             /\ StoredToken(storage') = None
       ]_vars

(* a valid response carried an empty token and the token stored before is  *)
(* still there                                                             *)
C11_Witness ==
  \E i \in Ids :
    /\ msgs[i].pc = "w_setmeta_ok"
    /\ msgs[i].postToken = Some(EMPTY)
    /\ StoredToken(storage) = Some("t1")

----------------------------------------------------------------------------
(* CLEAR_TOKEN among readers of the token, at one instant *)

ClearInputs(type) == IF type = "HANDLE_AUTH" THEN {AuthInput("u1", "c1")} ELSE {NoInput}

ReceiveClear ==
  /\ Len(msgs) < MaxClearMsgs
  /\ \E type \in {"CLEAR_TOKEN", "GET_TOKEN", "HANDLE_AUTH"} :
       \E in \in ClearInputs(type) : Deliver(type, in)
  /\ UNCHANGED <<now, ticks, cleanupDue, probe>>

NextClear ==
  \/ ReceiveClear
  \/ StorageCallback
  \/ HealthReply
  \/ CookiesReply
  \/ PostReply

SpecClear == Init /\ [][NextClear]_vars

(* a CLEAR_TOKEN has been answered and no token is stored *)
TokenCleared ==
  /\ \E j \in Ids : msgs[j].type = "CLEAR_TOKEN" /\ msgs[j].pc = "done"
  /\ StoredToken(storage) = None

(* C12 as stated: a GET_TOKEN that arrives when a CLEAR_TOKEN has been      *)
(* answered and no token has been stored since is answered with null (at    *)
(* once, or it waits for a storage read that gave null); a HANDLE_AUTH with *)
(* user and csrf that arrives then reads no token and authenticates with    *)
(* reason "no_token"; and CLEAR_TOKEN leaves the stored metadata alone.     *)
C12_TokenGoneAfterClear ==
  [][(Len(msgs') = Len(msgs) + 1) =>
       LET m == msgs'[Len(msgs')] IN
       /\ (TokenCleared /\ m.type = "GET_TOKEN") =>
            IF m.pc = "w_tok" THEN m.sval = None
            ELSE m.resp = Some([token |-> None])
       /\ (TokenCleared /\ m.type = "HANDLE_AUTH") =>
            IF m.pc = "w_tok" THEN m.sval = None
            ELSE IF m.pc = "w_meta" THEN m.token = None
            ELSE m.reason = "no_token"
       /\ m.type = "CLEAR_TOKEN" =>
            ChromeGet(storage', AUTH_META) = ChromeGet(storage, AUTH_META)
    ]_vars

----------------------------------------------------------------------------
(* Properties of forceReauth and of throttling, under Spec *)

(* C13 as stated: a FORCE_REAUTH with user and csrf that has been answered *)
(* was answered with shouldAuth true, never with reason "throttled", and   *)
(* has written the metadata reset.                                         *)
C13_ForceAlwaysAuthenticates ==
  \A i \in Ids :
    (/\ msgs[i].type = "FORCE_REAUTH"
     /\ ~Falsy(msgs[i].user) /\ ~Falsy(msgs[i].csrf)
     /\ msgs[i].pc = "done") =>
      /\ Val(msgs[i].resp).shouldAuth = "true"
      /\ Val(msgs[i].resp).reason # "throttled"
      /\ AUTH_META \in msgs[i].wrote


(* message i is a HANDLE_AUTH for (user, csrf) that was answered success    *)
(* true with shouldAuth true, and no CLEAR_TOKEN or FORCE_REAUTH came later *)
AuthenticatedFor(i, user, csrf) ==
  /\ msgs[i].type = "HANDLE_AUTH"
  /\ msgs[i].user = user /\ msgs[i].csrf = csrf
  /\ msgs[i].pc = "done"
  /\ Val(msgs[i].resp).success = "true"
  /\ Val(msgs[i].resp).shouldAuth = "true"
  /\ \A j \in Ids : j > i => msgs[j].type \notin {"CLEAR_TOKEN", "FORCE_REAUTH"}

(* C14 as stated: a HANDLE_AUTH that arrives less than 2 hours after the   *)
(* script started, after a HANDLE_AUTH with the same user and csrf was     *)
(* answered success true with shouldAuth true, starts no attempt: it waits *)
(* for a storage read or is answered "throttled" having sent nothing.      *)
C14_ThrottledAfterSuccess ==
  [][(Len(msgs') = Len(msgs) + 1) =>
       LET m == msgs'[Len(msgs')] IN
       (/\ m.type = "HANDLE_AUTH"
        /\ now - StartTime <= AUTH_THROTTLE_INTERVAL
        /\ \E i \in Ids : AuthenticatedFor(i, m.user, m.csrf)) =>
         \/ m.pc \in {"w_tok", "w_meta"}
         \/ /\ m.pc = "done"
            /\ Val(m.resp).shouldAuth = "false"
            /\ Val(m.resp).reason = "throttled"
            /\ m.sent = {}
    ]_vars


(* every message so far is a HANDLE_AUTH with the user and csrf of the first *)
SameCredentialsOnly ==
  \A k \in Ids :
    /\ msgs[k].type = "HANDLE_AUTH"
    /\ msgs[k].user = msgs[1].user /\ ~Falsy(msgs[k].user)
    /\ msgs[k].csrf = msgs[1].csrf /\ ~Falsy(msgs[k].csrf)

(* the run that message i started has resolved with success and a token *)
SucceededWithToken(i) ==
  /\ msgs[i].result # None
  /\ Val(msgs[i].result).success = "true"
  /\ Val(msgs[i].result).token # None
  /\ ~Falsy(Val(Val(msgs[i].result).token))

AttemptOf(i) == IF msgs[i].joined # 0 THEN msgs[i].joined ELSE i

(* C16 as stated: a request answered success true with shouldAuth true was  *)
(* answered from an attempt made for its own user and csrf (the csrf that   *)
(* _executeAuth posts and the lastUser/lastCsrf it records are those of the *)
(* call that started the attempt).                                         *)
C16_OwnCredentials ==
  \A i \in Ids :
    (/\ msgs[i].type \in AuthTypes
     /\ msgs[i].pc = "done"
     /\ Val(msgs[i].resp).success = "true"
     /\ Val(msgs[i].resp).shouldAuth = "true") =>
      /\ msgs[AttemptOf(i)].user = msgs[i].user
      /\ msgs[AttemptOf(i)].csrf = msgs[i].csrf


(* C17 as stated, for HANDLE_AUTH traffic: when every handler has finished *)
(* and a token is stored, the token is the one of the attempt that         *)
(* recorded the stored lastUser and lastCsrf: either the token and the     *)
(* metadata that were there at the start (token "t1" with PersistedMeta),  *)
(* or the token that a successful attempt for lastUser and lastCsrf        *)
(* returned.                                                               *)
C17_TokenOfLastUser ==
  (/\ \A k \in Ids : msgs[k].type = "HANDLE_AUTH" /\ msgs[k].pc = "done"
   /\ StoredToken(storage) # None) =>
    LET meta == StoredMeta(storage) IN
    \/ /\ storage[TOKEN] = "t1"
       /\ meta.lastUser = PersistedMeta.lastUser
       /\ meta.lastCsrf = PersistedMeta.lastCsrf
    \/ \E i \in Ids :
         /\ SucceededWithToken(i)
         /\ Val(msgs[i].result).token = StoredToken(storage)
         /\ msgs[i].user = meta.lastUser
         /\ msgs[i].csrf = meta.lastCsrf


(* C18 as stated: while the stored metadata record a failed attempt that  *)
(* started at most 30 s ago (failureCount > 0, now - lastAttempt <= 30 s), *)
(* no step puts a HANDLE_AUTH into an attempt of its own, whatever token   *)
(* is stored and whatever user and csrf it carries.                        *)
C18_NoAttemptAfterFailure ==
  [][\A i \in DOMAIN msgs' :
       (/\ msgs'[i].type = "HANDLE_AUTH"
        /\ msgs'[i].pc \in RunPcs
        /\ ~(i \in Ids /\ InRun(i))) =>
         ~(/\ StoredMeta(storage).failureCount > 0
           /\ now - StoredMeta(storage).lastAttempt <= RETRY_AFTER)
    ]_vars


(* C19 as stated: when no callback of chrome.storage.local is outstanding *)
(* (no get, set or remove is pending, for any key), every entry of         *)
(* StorageManager.cache equals the value persisted under its key, null     *)
(* when the key is absent from storage.                                    *)
C19_CacheCoherent ==
  storageQueue = <<>> =>
    \A key \in DOMAIN cache : cache[key] = ChromeGet(storage, key)


(* the step in which message m arrives leaves the token, the metadata and *)
(* both caches as they were, calls chrome.storage.local for nothing and   *)
(* answers m with the error, having read nothing and requested nothing    *)
RejectedUnread(m, error) ==
  /\ m.pc = "done" /\ m.nresp = 1
  /\ m.resp = Some(Resp("false", "false", ABSENT, None, error))
  /\ m.token = None /\ m.seen = None /\ m.sval = None
  /\ m.sent = {} /\ m.wrote = {} /\ m.joined = 0 /\ m.result = None
  /\ UNCHANGED <<storage, cache, data, storageQueue, pendingAuthRequest>>

(* C20, amended: a HANDLE_AUTH whose data is an object with an empty or   *)
(* missing currentUser or csrfToken is answered at once with success      *)
(* false, error "Missing required auth data", shouldAuth false, without   *)
(* a read or a change of the token or the metadata and without a request; *)
(* and no HANDLE_AUTH response has the reason "no_csrf" or "no_user".     *)
C20_MissingDataRejected ==
  /\ [](\A i \in Ids :
         (msgs[i].type = "HANDLE_AUTH" /\ msgs[i].resp # None) =>
           Val(msgs[i].resp).reason \notin {"no_csrf", "no_user"})
  /\ [][(Len(msgs') = Len(msgs) + 1) =>
         LET m == msgs'[Len(msgs')] IN
         (/\ m.type = "HANDLE_AUTH"
          /\ m.hasData
          /\ Falsy(m.user) \/ Falsy(m.csrf)) =>
           RejectedUnread(m, "Missing required auth data")
      ]_vars

(* a HANDLE_AUTH with a user and an empty csrfToken has been rejected while *)
(* a token was stored                                                       *)
C20_Witness ==
  \E i \in Ids :
    /\ msgs[i].type = "HANDLE_AUTH" /\ msgs[i].hasData
    /\ ~Falsy(msgs[i].user) /\ msgs[i].csrf = EMPTY
    /\ msgs[i].pc = "done"
    /\ Val(msgs[i].resp).error = "Missing required auth data"
    /\ StoredToken(storage) # None

(* C20 as stated: every HANDLE_AUTH that brings no currentUser or no       *)
(* csrfToken, a message without data included, is answered with the error *)
(* "Missing required auth data".                                           *)
C20_AsStated ==
  [][(Len(msgs') = Len(msgs) + 1) =>
       LET m == msgs'[Len(msgs')] IN
       (/\ m.type = "HANDLE_AUTH"
        /\ Falsy(m.user) \/ Falsy(m.csrf)) =>
         RejectedUnread(m, "Missing required auth data")
    ]_vars


----------------------------------------------------------------------------
(* The callers of checkHealth over a few units of time *)

HealthTypes == {"CHECK_HEALTH", "HANDLE_AUTH"}

HealthInputs(type) ==
  IF type = "HANDLE_AUTH" THEN {AuthInput("u1", "c1")} ELSE {NoInput}

ReceiveHealth ==
  /\ Len(msgs) < MaxHealthMsgs
  /\ \E type \in HealthTypes : \E in \in HealthInputs(type) : Deliver(type, in)
  /\ UNCHANGED <<now, ticks, cleanupDue, probe>>

(* 30 s pass while no handler waits for chrome.storage or chrome.cookies; *)
(* the cleanup timer (10 minutes) does not expire within MaxHealthTicks   *)
TickHealth ==
  /\ ticks < MaxHealthTicks
  /\ \A i \in Ids : msgs[i].pc \notin StorageWaits \cup {"w_cookies"}
  /\ now' = now + 1
  /\ ticks' = ticks + 1
  /\ UNCHANGED <<data, cache, storage, pendingAuthRequest, PendingUserStatusRequests,
                 msgs, storageQueue, cleanupDue, probe>>

NextHealth ==
  \/ ReceiveHealth
  \/ StorageCallback
  \/ HealthReply
  \/ CookiesReply
  \/ PostReply
  \/ TickHealth

SpecHealth == Init /\ [][NextHealth]_vars


(* the value that the checkHealth call of handler m returned, seen in what *)
(* the handler did with it: CHECK_HEALTH answers {healthy, data} from its  *)
(* try block (after the categories are stored, if any); _executeAuth goes  *)
(* on to the cookies and the POST, or throws "API unhealthy" itself        *)
HealthReturned(m, value) ==
  IF value.category
    THEN m.pc = "w_hstore" /\ m.health = value
  ELSE IF m.type = "CHECK_HEALTH"
    THEN /\ m.pc = "done" /\ m.nresp = 1
         /\ m.resp = Some([healthy |-> (value.status = "healthy"), data |-> value])
  ELSE IF value.status = "healthy"
    THEN /\ m.health = value
         /\ \/ m.pc \in {"w_cookies", "w_post"}
            \/ m.pc = "w_setmeta_fail" /\ m.error # "API unhealthy"
  ELSE m.pc = "w_setmeta_fail" /\ m.error = "API unhealthy" /\ m.sent = {"health"}

(* C21: in the step in which the /health request of a checkHealth call     *)
(* settles, the call returns a value and that value is the entry the Cache *)
(* then holds for health_check: after a failure {status "unhealthy",       *)
(* error}, expiring 30 s later; after a response the response, expiring    *)
(* 60 s later.                                                             *)
C21_HealthNeverRejects ==
  [][\A i \in Ids :
       (msgs[i].pc = "w_health" /\ msgs'[i].pc # "w_health") =>
         /\ HEALTH_KEY \in DOMAIN data'
         /\ LET item == data'[HEALTH_KEY] IN
            /\ HealthReturned(msgs'[i], item.value)
            /\ ~msgs'[i].thrown
            /\ \/ /\ item.value.status = "unhealthy"
                  /\ item.value.error # ABSENT
                  /\ item.expiry = now + HEALTH_ERROR_TTL
               \/ /\ item.value.status = "healthy"
                  /\ item.value.error = ABSENT
                  /\ item.expiry = now + HEALTH_TTL
    ]_vars

(* a failed /health request was answered as a value by CHECK_HEALTH, a    *)
(* second call was answered with its entry, and a call made 60 s after    *)
(* the failure sent a new request                                         *)
C21_Witness ==
  /\ Len(msgs) = 3
  /\ \A i \in Ids : msgs[i].type = "CHECK_HEALTH" /\ msgs[i].pc = "done"
  /\ msgs[1].sent = {"health"} /\ ~Val(msgs[1].resp).healthy
  /\ Val(msgs[1].resp).data.status = "unhealthy"
  /\ msgs[2].sent = {} /\ msgs[2].resp = msgs[1].resp
  /\ msgs[3].sent = {"health"}
  /\ data[HEALTH_KEY].expiry = now + HEALTH_ERROR_TTL
  /\ now = StartTime + 2


(* handler i calls checkHealth in this step: a CHECK_HEALTH arrives, or a *)
(* HANDLE_AUTH gets as far as step 1 of an attempt of its own             *)
CallsCheckHealth(i) ==
  /\ i \in Ids => msgs[i].pc \in {"w_tok", "w_meta", "w_rmeta"}
  /\ \/ msgs'[i].type = "CHECK_HEALTH"
     \/ /\ msgs'[i].type = "HANDLE_AUTH"
        /\ msgs'[i].pc \in {"w_health", "w_hstore", "w_cookies", "w_post",
                            "w_setmeta_fail"}

(* what handler m has done when its checkHealth call returned the cached  *)
(* value without a request: CHECK_HEALTH has answered with it; an attempt *)
(* has gone on to the cookies when it is healthy, and has failed with     *)
(* "API unhealthy" having requested nothing (no cookies read, no POST)    *)
(* when it is not                                                         *)
CachedHealthUsed(m, value) ==
  /\ "health" \notin m.sent
  /\ IF m.type = "CHECK_HEALTH"
       THEN /\ m.pc = "done" /\ m.nresp = 1
            /\ m.resp = Some([healthy |-> (value.status = "healthy"), data |-> value])
     ELSE IF value.status = "healthy"
       THEN /\ m.health = value
            /\ \/ m.pc \in {"w_cookies", "w_post"}
               \/ m.pc = "w_setmeta_fail" /\ m.error # "API unhealthy"
     ELSE /\ m.pc = "w_setmeta_fail" /\ m.error = "API unhealthy"
          /\ m.sent = {}

(* C22: a checkHealth call made while the Cache holds a health entry that *)
(* has not expired sends no /health request and returns that entry (a     *)
(* call made without one sends the request); an authentication attempt    *)
(* whose health check finds a valid "unhealthy" entry fails and has sent  *)
(* neither cookies nor csrf token to the API.                             *)
C22_CachedHealthUsed ==
  /\ [][\A i \in DOMAIN msgs' :
         CallsCheckHealth(i) =>
           LET cached == CacheGet(data, HEALTH_KEY, now) IN
           IF cached # None
             THEN CachedHealthUsed(msgs'[i], Val(cached))
             ELSE msgs'[i].pc = "w_health" /\ msgs'[i].sent = {"health"}
      ]_vars
  /\ [](\A i \in Ids :
         (/\ msgs[i].type = "HANDLE_AUTH" /\ msgs[i].result # None
          /\ Val(msgs[i].result).error = "API unhealthy"
          /\ "health" \notin msgs[i].sent) =>
           /\ msgs[i].sent = {}
           /\ Val(msgs[i].result).success = "false"
           /\ msgs[i].pc = "done" => Val(msgs[i].resp).success = "false")

(* 30 s after a failed /health request an authentication attempt has     *)
(* failed on the cached entry without a request of its own               *)
C22_Witness ==
  /\ now = StartTime + 1
  /\ CacheGet(data, HEALTH_KEY, now) # None
  /\ data[HEALTH_KEY].expiry = StartTime + HEALTH_ERROR_TTL
  /\ \E i \in Ids :
       /\ msgs[i].type = "HANDLE_AUTH" /\ msgs[i].pc = "done"
       /\ msgs[i].result = Some(Result("false", None, "API unhealthy"))
       /\ msgs[i].sent = {}


(* C22 as stated: while the Cache holds a valid "unhealthy" health entry, *)
(* no authentication attempt sends the cookies and the csrf token to the  *)
(* API (no step makes the POST of an attempt).                            *)
C22_AsStated ==
  [][\A i \in Ids :
       (/\ CacheGet(data, HEALTH_KEY, now) # None
        /\ Val(CacheGet(data, HEALTH_KEY, now)).status = "unhealthy") =>
         ~("post" \notin msgs[i].sent /\ "post" \in msgs'[i].sent)
    ]_vars


----------------------------------------------------------------------------
(* FETCH_USERS_CARD_STATUS messages only *)

FetchCards == {1, 2}
FetchUserIds == {1, 2}

(* the users arrays a page script sends: not empty, ids in any order, an id *)
(* possibly more than once                                                  *)
UserLists == UNION {[1..n -> FetchUserIds] : n \in 1..MaxUsers}

FetchInputs ==
  {Input(TRUE, NULL, NULL, TRUE, Req(c, us)) : c \in FetchCards, us \in UserLists}
    \cup {Input(TRUE, NULL, NULL, FALSE, Req(1, <<>>))}

ReceiveFetch ==
  /\ Len(msgs) < MaxFetchMsgs
  /\ \E in \in FetchInputs : Deliver("FETCH_USERS_CARD_STATUS", in)
  /\ UNCHANGED <<now, ticks, cleanupDue, probe>>

NextFetch ==
  \/ ReceiveFetch
  \/ ApiReply

SpecFetch == Init /\ [][NextFetch]_vars


(* how often id x occurs in the list s *)
Occurrences(s, x) == Cardinality({k \in 1..Len(s) : s[k] = x})

(* two messages ask for the same card and the same user ids, in any order *)
SameRequest(a, b) ==
  /\ a.card_id = b.card_id
  /\ \A x \in FetchUserIds : Occurrences(a.users, x) = Occurrences(b.users, x)

(* handler i has sent a /users_card_status request that has not settled *)
FetchInFlight(i) ==
  msgs[i].type = "FETCH_USERS_CARD_STATUS" /\ msgs[i].pc = "w_api"

====
